---- MODULE Spec2Model ----
(***************************************************************************)
(* Model of the Aurum query algebra (src/algebra.py, class Algebra).       *)
(*                                                                         *)
(* Every public operation of Algebra is one call that runs to completion   *)
(* (the code is single-threaded and synchronous).  A call is modelled as   *)
(* an operator that computes the call's outcome and the sequence of        *)
(* collaborator calls it makes; traverse, whose loop is the subject of     *)
(* several properties, is modelled round by round.  An Algebra keeps no    *)
(* state between calls, so a behaviour is one call on a fresh object.      *)
(*                                                                         *)
(* Hit, DRS, Operation, compute_field_id (api.apiutils), the Network and   *)
(* the Store are not part of src/algebra.py; they are modelled at the      *)
(* interface the specification document gives for them.                    *)
(***************************************************************************)
EXTENDS Integers, Sequences, FiniteSets, TLC

VARIABLES
    graph,        \* the relationship graph held by the Network collaborator
    inPlace,      \* whether DRS combinators update the receiver or return a new value
    pc,           \* "idle" before the call, "traverse" inside traverse's loop, "done"
    op,           \* name of the operation called last
    arg_a,        \* first general input of the call
    arg_b,        \* second general input of the call (or the list of make_drs)
    arg_rel,      \* relation / primitive / MDRelation argument
    arg_hops,     \* max_hops argument
    result,       \* outcome of the call
    netlog,       \* calls made to the Network collaborator during the call
    storelog,     \* calls made to the Store collaborator during the call
    drsops,       \* DRS set operations applied by the combiner or traverse called
    t_hops,       \* traverse: local max_hops
    t_fringe,     \* traverse: local fringe
    t_odrs,       \* traverse: local o_drs
    t_rounds,     \* traverse: completed iterations of the while loop
    t_prev        \* traverse: o_drs at the end of the previous iteration

vars == << graph, inPlace, pc, op, arg_a, arg_b, arg_rel, arg_hops, result,
           netlog, storelog, drsops, t_hops, t_fringe, t_odrs, t_rounds, t_prev >>

-----------------------------------------------------------------------------
(* Bounds *)

MaxHops == 2
MaxList == 2

-----------------------------------------------------------------------------
(* Generic helpers *)

RECURSIVE SeqToSet(_)
SeqToSet(s) == IF s = << >> THEN {} ELSE {Head(s)} \cup SeqToSet(Tail(s))

\* all sequences over S of length 0..n
RECURSIVE SeqsUpTo(_, _)
SeqsUpTo(S, n) ==
    IF n = 0 THEN { << >> }
    ELSE LET shorter == SeqsUpTo(S, n - 1)
         IN shorter \cup { Append(s, x) : s \in { t \in shorter : Len(t) = n - 1 }, x \in S }

-----------------------------------------------------------------------------
(* Hit: (nid, db_name, source_name, field_name, score).  Identity is the   *)
(* nid.  The score is payload and is left out.                             *)

NoneField == "<None>"

Hit(nid, db, source, field) ==
    [nid |-> nid, db_name |-> db, source_name |-> source, field_name |-> field]

Nids(hits) == { hits[i].nid : i \in DOMAIN hits }

\* keep the first Hit of each nid
RECURSIVE Dedup(_)
Dedup(hits) ==
    IF hits = << >> THEN << >>
    ELSE LET init == Dedup(SubSeq(hits, 1, Len(hits) - 1))
             last == hits[Len(hits)]
         IN IF last.nid \in Nids(init) THEN init ELSE Append(init, last)

-----------------------------------------------------------------------------
(* DRS: ordered de-duplicated Hits, a mode, a provenance trail.            *)

Operation(kind) == [kind |-> kind]

DRS(data, operation) ==
    [data |-> Dedup(data), mode |-> "FIELDS", prov |-> << operation >>]

set_table_mode(drs) == [drs EXCEPT !.mode = "TABLE"]

set_fields_mode(drs) == [drs EXCEPT !.mode = "FIELDS"]

absorb_provenance(drs, other) == [drs EXCEPT !.prov = drs.prov \o other.prov]

absorb(drs, other) ==
    [data |-> Dedup(drs.data \o other.data),
     mode |-> drs.mode,
     prov |-> drs.prov \o other.prov]

drs_union(a, b) ==
    [data |-> Dedup(a.data \o b.data),
     mode |-> a.mode,
     prov |-> a.prov \o b.prov]

drs_intersection(a, b) ==
    [data |-> SelectSeq(a.data, LAMBDA h : h.nid \in Nids(b.data)),
     mode |-> a.mode,
     prov |-> a.prov \o b.prov]

drs_set_difference(a, b) ==
    [data |-> SelectSeq(a.data, LAMBDA h : h.nid \notin Nids(b.data)),
     mode |-> a.mode,
     prov |-> a.prov \o b.prov]

\* a statement "x.absorb_provenance(y)" whose value is discarded changes x
\* only if the combinator updates its receiver
absorb_provenance_stmt(ip, drs, other) ==
    IF ip THEN absorb_provenance(drs, other) ELSE drs

-----------------------------------------------------------------------------
(* The catalog served by the Network collaborator                          *)

Columns ==
    << Hit(1, "db", "t1", "c1"),
       Hit(2, "db", "t1", "c2"),
       Hit(3, "db", "t2", "c3") >>

\* nodes known by identifier: the columns and one table placeholder node
Nodes == Columns \o << Hit(4, "db", "t1", "") >>

Relations == {"PKFK", "CONTENT_SIM"}

\* str(nid)
str(n) ==
    CASE n = 1 -> "1" [] n = 2 -> "2" [] n = 3 -> "3" [] n = 4 -> "4"
      [] n = 9 -> "9" [] OTHER -> "?"

NumericStrings == {"1", "2", "3", "4", "9"}

get_info_for(s) == SelectSeq(Nodes, LAMBDA h : str(h.nid) = s)

get_hits_from_table(table) == SelectSeq(Columns, LAMBDA h : h.source_name = table)

compute_field_id(db, source, field) ==
    LET known == SelectSeq(Nodes, LAMBDA h : h.db_name = db /\ h.source_name = source
                                             /\ h.field_name = field)
    IN IF known = << >> THEN 0 ELSE known[1].nid

Graphs ==
    { [r \in Relations |-> {}],
      [r \in Relations |-> IF r = "PKFK" THEN {<<1, 3>>, <<3, 2>>} ELSE {<<2, 2>>}],
      [r \in Relations |-> IF r = "PKFK" THEN {<<1, 2>>, <<2, 1>>, <<2, 3>>}
                                          ELSE {<<3, 1>>, <<1, 3>>}] }

neighbors_id(g, hit, relation) ==
    DRS(SelectSeq(Columns, LAMBDA h : << hit.nid, h.nid >> \in g[relation]),
        Operation(relation))

RECURSIVE ReachSet(_, _, _, _)
ReachSet(g, relation, from, k) ==
    IF k = 0 THEN from
    ELSE ReachSet(g, relation,
                  from \cup { e[2] : e \in { d \in g[relation] : d[1] \in from } }, k - 1)

find_path_hit(g, h1, h2, relation, max_hops) ==
    DRS(IF h2.nid \in ReachSet(g, relation, {h1.nid}, max_hops)
        THEN << h1, h2 >> ELSE << >>,
        Operation(relation))

find_path_table(g, h1, h2, relation, max_hops) ==
    LET t1 == Nids(get_hits_from_table(h1.source_name))
        t2 == Nids(get_hits_from_table(h2.source_name))
    IN DRS(IF ReachSet(g, relation, t1, max_hops) \cap t2 # {}
           THEN << h1, h2 >> ELSE << >>,
           Operation(relation))

NetCall(fn, args) == [fn |-> fn, args |-> args]

-----------------------------------------------------------------------------
(* General inputs: None, a DRS, an int, a str, a node tuple, a Hit, a list *)
(* or a value of no accepted type.                                         *)

InNone == [tag |-> "none"]
InDRS(drs) == [tag |-> "drs", drs |-> drs]
InInt(n) == [tag |-> "int", int |-> n]
InStr(s) == [tag |-> "str", str |-> s]
InTuple(db, source, field) == [tag |-> "tuple", node |-> << db, source, field >>]
InHit(hit) == [tag |-> "hit", hit |-> hit]
InList(xs) == [tag |-> "list", list |-> xs]
InOther == [tag |-> "other"]

\* outcome of a helper: a value or a raised error, and the Network calls made
Ret(val, net) == [ok |-> TRUE, err |-> "", val |-> val, net |-> net]
Raise(err, net) == [ok |-> FALSE, err |-> err, val |-> << >>, net |-> net]

_represents_int(x) ==
    \/ x.tag = "int"
    \/ x.tag = "str" /\ x.str \in NumericStrings

_nid_to_hit(x) ==
    LET nid == IF x.tag = "int" THEN str(x.int) ELSE x.str
        info == get_info_for(nid)
        net == << NetCall("get_info_for", << nid >>) >>
    IN IF info = << >> THEN Raise("IndexError", net)
       ELSE Ret(Hit(info[1].nid, info[1].db_name, info[1].source_name,
                    info[1].field_name), net)

_node_to_hit(node) ==
    Hit(compute_field_id(node[1], node[2], node[3]), node[1], node[2], node[3])

_hit_to_drs(hit, table_mode) ==
    IF table_mode
    THEN Ret(set_table_mode(DRS(get_hits_from_table(hit.source_name), Operation("TABLE"))),
             << NetCall("get_hits_from_table", << hit.source_name >>) >>)
    ELSE Ret(DRS(<< hit >>, Operation("ORIGIN")), << >>)

\* _general_to_drs runs its tests one after the other on the same variable;
\* st is that variable (x), the Network calls made so far and the error raised

\* lines 360-361
to_drs_none(st) ==
    IF st.x.tag = "none"
    THEN [st EXCEPT !.x = InDRS(DRS(<< >>, Operation("NONE")))]
    ELSE st

\* lines 364-365
to_drs_int(st) ==
    IF _represents_int(st.x)
    THEN LET r == _nid_to_hit(st.x)
         IN [x |-> IF r.ok THEN InHit(r.val) ELSE st.x,
             net |-> st.net \o r.net,
             err |-> r.err]
    ELSE st

\* lines 368-370
to_drs_str(st) ==
    IF st.err = "" /\ st.x.tag = "str"
    THEN [st EXCEPT !.x = InDRS(DRS(get_hits_from_table(st.x.str), Operation("ORIGIN"))),
                    !.net = Append(st.net, NetCall("get_hits_from_table", << st.x.str >>))]
    ELSE st

\* lines 373-375
to_drs_tuple(st) ==
    IF st.err = "" /\ st.x.tag = "tuple"
    THEN [st EXCEPT !.x = InHit(_node_to_hit(st.x.node))]
    ELSE st

\* lines 378-386
to_drs_hit(st) ==
    IF st.err = "" /\ st.x.tag = "hit"
    THEN LET field == st.x.hit.field_name
             r == _hit_to_drs(st.x.hit, field = "" \/ field = NoneField)
         IN [x |-> InDRS(r.val), net |-> st.net \o r.net, err |-> ""]
    ELSE st

\* lines 387-391
to_drs_return(st) ==
    IF st.err # "" THEN Raise(st.err, st.net)
    ELSE IF st.x.tag = "drs" THEN Ret(st.x.drs, st.net)
    ELSE Raise("ValueError: Input is not None, an integer, field tuple, Hit, or DRS",
               st.net)

_general_to_drs(general_input) ==
    IF general_input.tag = "drs" THEN Ret(general_input.drs, << >>)
    ELSE to_drs_return(to_drs_hit(to_drs_tuple(to_drs_str(to_drs_int(to_drs_none(
             [x |-> general_input, net |-> << >>, err |-> ""]))))))

\* the for loop of _general_to_field_drs; a receiver-updating absorb makes
\* the loop run over the DRS as it grows
RECURSIVE field_loop(_, _, _, _, _)
field_step(ip, iter, drs, i, net, fields_table) ==
    field_loop(ip, iter, absorb(drs, fields_table.val), i + 1, net \o fields_table.net)

field_loop(ip, iter, drs, i, net) ==
    IF i > Len(IF ip THEN drs.data ELSE iter) THEN Ret(drs, net)
    ELSE field_step(ip, iter, drs, i, net,
                    _hit_to_drs((IF ip THEN drs.data ELSE iter)[i], TRUE))

\* mutant: drs.set_fields_mode() is missing
field_drs_of_keeps_mode(ip, r) ==
    IF ~r.ok THEN r
    ELSE field_loop(ip, r.val.data, r.val, 1, r.net)

\* lines 439-444
field_drs_of(ip, r) ==
    IF ~r.ok THEN r
    ELSE field_loop(ip, r.val.data, set_fields_mode(r.val), 1, r.net)

_general_to_field_drs(ip, general_input) ==
    field_drs_of(ip, _general_to_drs(general_input))

\* mutant: the assertion is missing
_assert_same_mode_missing(a, b) == TRUE

\* lines 468-471
_assert_same_mode(a, b) == a.mode = b.mode

-----------------------------------------------------------------------------
(* Outcome of a public operation                                           *)

Done(drs, net, ops) ==
    [status |-> "ok", err |-> "", drs |-> drs, mrs |-> << >>,
     net |-> net, store |-> << >>, ops |-> ops]

Fail(err, net, store) ==
    [status |-> "error", err |-> err, drs |-> << >>, mrs |-> << >>,
     net |-> net, store |-> store, ops |-> << >>]

ReturnsNone(net, store) ==
    [status |-> "none", err |-> "", drs |-> << >>, mrs |-> << >>,
     net |-> net, store |-> store, ops |-> << >>]

DoneMRS(mrs, net, store) ==
    [status |-> "ok", err |-> "", drs |-> << >>, mrs |-> mrs,
     net |-> net, store |-> store, ops |-> << >>]

ModeMismatch == "AssertionError: Input parameters are not in the same mode (fields, table)"

\* the two normalizations that open every binary operation: a first, then b
normalize_pair(ra, rb) ==
    IF ~ra.ok THEN [ok |-> FALSE, err |-> ra.err, a |-> << >>, b |-> << >>, net |-> ra.net]
    ELSE IF ~rb.ok
    THEN [ok |-> FALSE, err |-> rb.err, a |-> << >>, b |-> << >>, net |-> ra.net \o rb.net]
    ELSE [ok |-> TRUE, err |-> "", a |-> ra.val, b |-> rb.val, net |-> ra.net \o rb.net]

-----------------------------------------------------------------------------
(* Combiner API                                                            *)

intersection_of(n) ==
    IF ~n.ok THEN Fail(n.err, n.net, << >>)
    ELSE IF ~_assert_same_mode(n.a, n.b) THEN Fail(ModeMismatch, n.net, << >>)
    ELSE Done(drs_intersection(n.a, n.b), n.net, << "intersection" >>)

intersection(a, b) ==
    intersection_of(normalize_pair(_general_to_drs(a), _general_to_drs(b)))

union_of(n) ==
    IF ~n.ok THEN Fail(n.err, n.net, << >>)
    ELSE IF ~_assert_same_mode(n.a, n.b) THEN Fail(ModeMismatch, n.net, << >>)
    ELSE Done(drs_union(n.a, n.b), n.net, << "union" >>)

union(a, b) ==
    union_of(normalize_pair(_general_to_drs(a), _general_to_drs(b)))

\* lines 297-298 and 305-306: difference normalizes its operands twice
difference_again(n) ==
    IF ~n.ok THEN n
    ELSE [n EXCEPT !.a = _general_to_drs(InDRS(n.a)).val,
                   !.b = _general_to_drs(InDRS(n.b)).val]

difference_of(n) ==
    IF ~n.ok THEN Fail(n.err, n.net, << >>)
    ELSE IF ~_assert_same_mode(n.a, n.b) THEN Fail(ModeMismatch, n.net, << >>)
    ELSE Done(drs_set_difference(n.a, n.b), n.net, << "set_difference" >>)

difference(a, b) ==
    difference_of(difference_again(normalize_pair(_general_to_drs(a), _general_to_drs(b))))

-----------------------------------------------------------------------------
(* Basic API: neighbor_search                                              *)

\* lines 189-191
RECURSIVE neighbor_loop(_, _, _, _, _, _)
neighbor_loop(g, hits, relation, i, o_drs, net) ==
    IF i > Len(hits) THEN Done(o_drs, net, << >>)
    ELSE neighbor_loop(g, hits, relation, i + 1,
                       absorb(o_drs, neighbors_id(g, hits[i], relation)),
                       Append(net, NetCall("neighbors_id", << hits[i].nid, relation >>)))

\* lines 185-186: the value of _general_to_field_drs(i_drs) is discarded;
\* i_drs keeps what the call did to the object itself
expand_if_table(ip, i_drs, rf) ==
    IF i_drs.mode = "TABLE"
    THEN [drs |-> IF ip THEN rf.val ELSE set_fields_mode(i_drs), net |-> rf.net]
    ELSE [drs |-> i_drs, net |-> << >>]

neighbor_search_from(g, relation, ri, e) ==
    neighbor_loop(g, e.drs.data, relation, 1,
                  absorb_provenance(DRS(<< >>, Operation("NONE")), ri.val),
                  ri.net \o e.net)

neighbor_search_of(ip, g, relation, ri) ==
    IF ~ri.ok THEN Fail(ri.err, ri.net, << >>)
    ELSE neighbor_search_from(g, relation, ri,
             expand_if_table(ip, ri.val, _general_to_field_drs(ip, InDRS(ri.val))))

neighbor_search(ip, g, general_input, relation) ==
    neighbor_search_of(ip, g, relation, _general_to_drs(general_input))

-----------------------------------------------------------------------------
(* TC API: paths                                                           *)

\* lines 226-232
path_query(g, mode, h1, h2, relation, max_hops) ==
    IF mode = "FIELDS"
    THEN [drs |-> find_path_hit(g, h1, h2, relation, max_hops),
          call |-> NetCall("find_path_hit", << h1.nid, h2.nid, relation, max_hops >>)]
    ELSE [drs |-> find_path_table(g, h1, h2, relation, max_hops),
          call |-> NetCall("find_path_table",
                           << h1.nid, h2.nid, relation, "self", max_hops >>)]

\* mutant: the loop skips the pairs (h, h)
paths_visits_distinct(h1, h2) == h1.nid # h2.nid

\* whether the loop of line 223 runs its body for the pair (h1, h2)
paths_visits(h1, h2) == TRUE

\* itertools.product(drs_a, drs_b): i runs over drs_a, j over drs_b
RECURSIVE paths_loop(_, _, _, _, _, _, _, _, _)
paths_step(g, drs_a, drs_b, relation, max_hops, i, j, o_drs, net, q) ==
    paths_loop(g, drs_a, drs_b, relation, max_hops,
               IF j = Len(drs_b.data) THEN i + 1 ELSE i,
               IF j = Len(drs_b.data) THEN 1 ELSE j + 1,
               IF paths_visits(drs_a.data[i], drs_b.data[j])
               THEN absorb(o_drs, q.drs) ELSE o_drs,
               IF paths_visits(drs_a.data[i], drs_b.data[j])
               THEN Append(net, q.call) ELSE net)

paths_loop(g, drs_a, drs_b, relation, max_hops, i, j, o_drs, net) ==
    IF i > Len(drs_a.data) \/ Len(drs_b.data) = 0 THEN Done(o_drs, net, << >>)
    ELSE paths_step(g, drs_a, drs_b, relation, max_hops, i, j, o_drs, net,
                    path_query(g, drs_a.mode, drs_a.data[i], drs_b.data[j],
                               relation, max_hops))

\* lines 218-221
paths_provenance(ip, drs_a, drs_b) ==
    IF drs_b # drs_a
    THEN absorb_provenance_stmt(ip,
             absorb_provenance_stmt(ip, DRS(<< >>, Operation("NONE")), drs_a), drs_b)
    ELSE absorb_provenance_stmt(ip, DRS(<< >>, Operation("NONE")), drs_a)

paths_of(ip, g, relation, max_hops, n) ==
    IF ~n.ok THEN Fail(n.err, n.net, << >>)
    ELSE IF ~_assert_same_mode(n.a, n.b) THEN Fail(ModeMismatch, n.net, << >>)
    ELSE paths_loop(g, n.a, n.b, relation, max_hops, 1, 1,
                    paths_provenance(ip, n.a, n.b), n.net)

paths(ip, g, a, b, relation, max_hops) ==
    paths_of(ip, g, relation, max_hops,
             normalize_pair(_general_to_drs(a), _general_to_drs(b)))

-----------------------------------------------------------------------------
(* TC API: traverse                                                        *)

\* attributes set on the object by __init__
Attributes == {"_network", "_store_client"}

\* inside class Algebra the name self.__network is the attribute
\* _Algebra__network (private name mangling)
TraverseNetworkAttr == "_Algebra__network"

UnsupportedMode == "ValueError: input mode DRSMode.TABLE not supported"

AttributeError == "AttributeError: 'Algebra' object has no attribute '_Algebra__network'"

\* mutant: the mode test is missing
traverse_rejects_nothing(a) == FALSE

\* line 250: the modes traverse refuses
traverse_rejects(a) == a.mode = "TABLE"

\* lines 246-255: everything before the while loop
traverse_enter_of(ip, ra) ==
    IF ~ra.ok THEN Fail(ra.err, ra.net, << >>)
    ELSE IF traverse_rejects(ra.val) THEN Fail(UnsupportedMode, ra.net, << >>)
    ELSE [status |-> "running", err |-> "", mrs |-> << >>,
          net |-> ra.net, store |-> << >>, ops |-> << >>,
          fringe |-> ra.val,
          drs |-> absorb_provenance_stmt(ip, DRS(<< >>, Operation("NONE")), ra.val)]

traverse_enter(ip, a) == traverse_enter_of(ip, _general_to_drs(a))

\* lines 258-260: the for loop of one round; alias says that fringe is the
\* object o_drs itself and that union updates it
RECURSIVE traverse_for(_, _, _, _, _, _, _, _)
traverse_body(alias, g, iter, primitive, i, net, ops, u) ==
    IF u.status # "ok" THEN Fail(u.err, net, << >>)
    ELSE traverse_for(alias, g, iter, primitive, i + 1, u.drs, net, ops \o u.ops)

traverse_for(alias, g, iter, primitive, i, o_drs, net, ops) ==
    IF i > Len(IF alias THEN o_drs.data ELSE iter) THEN Done(o_drs, net, ops)
    ELSE IF TraverseNetworkAttr \notin Attributes THEN Fail(AttributeError, net, << >>)
    ELSE traverse_body(alias, g, iter, primitive, i,
             Append(net, NetCall("neighbors_id",
                         << (IF alias THEN o_drs.data ELSE iter)[i].nid, primitive >>)),
             ops,
             union(InDRS(o_drs),
                   InDRS(neighbors_id(g, (IF alias THEN o_drs.data ELSE iter)[i],
                                      primitive))))

-----------------------------------------------------------------------------
(* Metadata API: annotate                                                  *)

MDClasses == {"WARNING", "INSIGHT", "QUESTION"}

MDRelations == {"MEANS_SAME_AS", "MEANS_DIFF_FROM", "IS_SUBCLASS_OF",
                "IS_SUPERCLASS_OF", "IS_MEMBER_OF", "IS_CONTAINER_OF"}

NoRelation == "None"

_mdclass_to_str(md_class) ==
    CASE md_class = "WARNING" -> "warning"
      [] md_class = "INSIGHT" -> "insight"
      [] md_class = "QUESTION" -> "question"

_mdrelation_to_str(md_relation) ==
    CASE md_relation = "MEANS_SAME_AS" -> << "same", TRUE >>
      [] md_relation = "MEANS_DIFF_FROM" -> << "different", TRUE >>
      [] md_relation = "IS_SUBCLASS_OF" -> << "subclass", TRUE >>
      [] md_relation = "IS_SUPERCLASS_OF" -> << "subclass", FALSE >>
      [] md_relation = "IS_MEMBER_OF" -> << "member", TRUE >>
      [] md_relation = "IS_CONTAINER_OF" -> << "member", FALSE >>

InvalidMode == "ValueError: source and targets must be columns"

\* Store.add_annotation: the stored annotation is the metadata hit returned
add_annotation(md_class, source, target, relation) ==
    [md_class |-> md_class, source |-> source, target |-> target, relation |-> relation]

MRS(md_hits) == md_hits

\* lines 53-60
annotate_plain(md_class, source) ==
    [i \in 1..Len(source.data) |-> add_annotation(md_class, source.data[i].nid, 0, "")]

\* lines 68-75: the inner loop for one source Hit
annotate_targets(md_class, hit_source, target, md_relation) ==
    [j \in 1..Len(target.data) |->
        add_annotation(md_class, hit_source.nid, target.data[j].nid, md_relation)]

\* lines 67-76: the return of line 76 sits inside the outer for loop
annotate_relational(md_class, source, target, md_relation) ==
    IF source.data = << >> THEN << >>
    ELSE annotate_targets(md_class, source.data[1], target, md_relation)

annotate_stored(n, md_hits) == DoneMRS(MRS(md_hits), n.net, md_hits)

\* lines 63-76
annotate_ref(md_class, n, rel) ==
    IF (IF rel[2] THEN n.a ELSE n.b).data = << >> THEN ReturnsNone(n.net, << >>)
    ELSE annotate_stored(n, annotate_relational(md_class,
                                IF rel[2] THEN n.a ELSE n.b,
                                IF rel[2] THEN n.b ELSE n.a,
                                rel[1]))

annotate_of(md_class, type, n) ==
    IF ~n.ok THEN Fail(n.err, n.net, << >>)
    ELSE IF n.a.mode # "FIELDS" \/ n.b.mode # "FIELDS" THEN Fail(InvalidMode, n.net, << >>)
    ELSE IF type = NoRelation
    THEN annotate_stored(n, annotate_plain(_mdclass_to_str(md_class), n.a))
    ELSE annotate_ref(_mdclass_to_str(md_class), n, _mdrelation_to_str(type))

annotate(md_class, general_source, general_target, type) ==
    annotate_of(md_class, type,
                normalize_pair(_general_to_drs(general_source),
                               _general_to_drs(general_target)))

-----------------------------------------------------------------------------
(* Helper: make_drs                                                        *)

\* lines 326-327: the list comprehension; stops at the first failure
RECURSIVE normalize_all(_, _, _, _)
normalize_next(xs, i, acc, net, r) ==
    IF ~r.ok THEN Raise(r.err, net \o r.net)
    ELSE normalize_all(xs, i + 1, Append(acc, r.val), net \o r.net)

normalize_all(xs, i, acc, net) ==
    IF i > Len(xs) THEN Ret(acc, net)
    ELSE normalize_next(xs, i, acc, net, _general_to_drs(xs[i]))

\* lines 329-331
RECURSIVE combine_all(_, _, _)
combine_next(drss, i, u) ==
    IF u.status # "ok" THEN Raise(u.err, u.net)
    ELSE combine_all(drss, i + 1, u.drs)

combine_all(drss, i, combined_drs) ==
    IF i > Len(drss) THEN Ret(combined_drs, << >>)
    ELSE combine_next(drss, i, union(InDRS(combined_drs), InDRS(drss[i])))

make_drs_combined(rn, rc) ==
    IF ~rn.ok THEN rn
    ELSE IF ~rc.ok THEN Raise(rc.err, rn.net)
    ELSE Ret(_general_to_drs(InDRS(rc.val)).val, rn.net)

make_drs_list(rn) ==
    make_drs_combined(rn,
        IF rn.ok THEN combine_all(rn.val, 1, DRS(<< >>, Operation("NONE"))) ELSE rn)

\* lines 325-336: the body of the try block
make_drs_try(general_input) ==
    IF general_input.tag = "list"
    THEN make_drs_list(normalize_all(general_input.list, 1, << >>, << >>))
    ELSE _general_to_drs(general_input)

\* mutant: the except clause lets the error through
make_drs_except_reraises(r) ==
    IF r.ok THEN Done(r.val, r.net, << >>) ELSE Fail(r.err, r.net, << >>)

\* lines 337-345: the bare except prints the usage message; None is returned
make_drs_except(r) ==
    IF r.ok THEN Done(r.val, r.net, << >>) ELSE ReturnsNone(r.net, << >>)

make_drs(general_input) == make_drs_except(make_drs_try(general_input))

-----------------------------------------------------------------------------
(* The calls a client can make                                             *)

CallerDRS ==
    { DRS(<< >>, Operation("NONE")),
      DRS(<< Columns[1] >>, Operation("KW_LOOKUP")),
      DRS(<< Columns[1], Columns[3] >>, Operation("KW_LOOKUP")),
      DRS(<< Columns[3], Columns[2] >>, Operation("KW_LOOKUP")),
      set_table_mode(DRS(<< Columns[2] >>, Operation("KW_LOOKUP"))),
      set_table_mode(DRS(<< Columns[1], Columns[2] >>, Operation("TABLE"))),
      set_table_mode(DRS(<< Columns[3], Columns[1] >>, Operation("KW_LOOKUP"))) }

GeneralInputs ==
    { InNone, InOther,
      InInt(1), InInt(4), InInt(9),
      InStr("t1"), InStr("nope"), InStr("3"),
      InTuple("db", "t1", "c2"), InTuple("db", "t1", ""), InTuple("db", "zz", "q"),
      InHit(Columns[3]), InHit(Hit(4, "db", "t1", "")), InHit(Hit(5, "db", "t2", NoneField)) }
    \cup { InDRS(d) : d \in CallerDRS }

ListInputs == { InList(xs) : xs \in SeqsUpTo(GeneralInputs, MaxList) }

Pending == [status |-> "running", err |-> "", drs |-> << >>, mrs |-> << >>]

Outcome(r) == [status |-> r.status, err |-> r.err, drs |-> r.drs, mrs |-> r.mrs]

Init ==
    /\ graph \in Graphs
    /\ inPlace \in BOOLEAN
    /\ pc = "idle"
    /\ op = "init"
    /\ arg_a = InNone
    /\ arg_b = InNone
    /\ arg_rel = NoRelation
    /\ arg_hops = 0
    /\ result = [status |-> "none", err |-> "", drs |-> << >>, mrs |-> << >>]
    /\ netlog = << >>
    /\ storelog = << >>
    /\ drsops = << >>
    /\ t_hops = 0
    /\ t_fringe = DRS(<< >>, Operation("NONE"))
    /\ t_odrs = DRS(<< >>, Operation("NONE"))
    /\ t_rounds = 0
    /\ t_prev = DRS(<< >>, Operation("NONE"))

\* a call that runs to completion in one step
Complete(name, a, b, rel, hops, r) ==
    /\ pc' = "done"
    /\ op' = name
    /\ arg_a' = a
    /\ arg_b' = b
    /\ arg_rel' = rel
    /\ arg_hops' = hops
    /\ result' = Outcome(r)
    /\ netlog' = r.net
    /\ storelog' = r.store
    /\ drsops' = r.ops
    /\ UNCHANGED << graph, inPlace, t_hops, t_fringe, t_odrs, t_rounds, t_prev >>

Intersection ==
    /\ pc = "idle"
    /\ \E a \in GeneralInputs, b \in GeneralInputs :
           Complete("intersection", a, b, NoRelation, 0, intersection(a, b))

Union ==
    /\ pc = "idle"
    /\ \E a \in GeneralInputs, b \in GeneralInputs :
           Complete("union", a, b, NoRelation, 0, union(a, b))

Difference ==
    /\ pc = "idle"
    /\ \E a \in GeneralInputs, b \in GeneralInputs :
           Complete("difference", a, b, NoRelation, 0, difference(a, b))

NeighborSearch ==
    /\ pc = "idle"
    /\ \E a \in GeneralInputs, rel \in Relations :
           Complete("neighbor_search", a, InNone, rel, 0,
                    neighbor_search(inPlace, graph, a, rel))

Paths ==
    /\ pc = "idle"
    /\ \E a \in GeneralInputs, b \in GeneralInputs, rel \in Relations, k \in 0..MaxHops :
           Complete("paths", a, b, rel, k, paths(inPlace, graph, a, b, rel, k))

Annotate ==
    /\ pc = "idle"
    /\ \E a \in GeneralInputs, b \in GeneralInputs, cls \in MDClasses,
          type \in MDRelations \cup {NoRelation} :
           Complete("annotate", a, b, type, 0, annotate(cls, a, b, type))

MakeDrs ==
    /\ pc = "idle"
    /\ \E x \in GeneralInputs \cup ListInputs :
           Complete("make_drs", x, InNone, NoRelation, 0, make_drs(x))

\* _general_to_field_drs called on its own
helper_outcome(r) ==
    IF r.ok THEN Done(r.val, r.net, << >>) ELSE Fail(r.err, r.net, << >>)

GeneralToFieldDrs ==
    /\ pc = "idle"
    /\ \E x \in GeneralInputs :
           Complete("_general_to_field_drs", x, InNone, NoRelation, 0,
                    helper_outcome(_general_to_field_drs(inPlace, x)))

\* traverse, lines 246-255
TraverseEntered(a, rel, k, r) ==
    /\ pc' = IF r.status = "running" THEN "traverse" ELSE "done"
    /\ op' = "traverse"
    /\ arg_a' = a
    /\ arg_b' = InNone
    /\ arg_rel' = rel
    /\ arg_hops' = k
    /\ result' = IF r.status = "running" THEN Pending ELSE Outcome(r)
    /\ netlog' = r.net
    /\ storelog' = << >>
    /\ drsops' = << >>
    /\ t_hops' = k
    /\ t_fringe' = IF r.status = "running" THEN r.fringe ELSE t_fringe
    /\ t_odrs' = IF r.status = "running" THEN r.drs ELSE t_odrs
    /\ t_rounds' = 0
    /\ t_prev' = IF r.status = "running" THEN r.drs ELSE t_prev
    /\ UNCHANGED << graph, inPlace >>

TraverseCall ==
    /\ pc = "idle"
    /\ \E a \in GeneralInputs, rel \in Relations, k \in 0..MaxHops :
           TraverseEntered(a, rel, k, traverse_enter(inPlace, a))

\* traverse, lines 256-261: one iteration of the while loop
TraverseRoundEnds(r) ==
    /\ t_hops' = t_hops - 1
    /\ netlog' = r.net
    /\ IF r.status = "ok"
       THEN /\ t_odrs' = r.drs
            /\ t_fringe' = r.drs
            /\ t_prev' = t_odrs
            /\ t_rounds' = t_rounds + 1
            /\ drsops' = r.ops
            /\ UNCHANGED << pc, result >>
       ELSE /\ pc' = "done"
            /\ result' = Outcome(r)
            /\ UNCHANGED << t_odrs, t_fringe, t_prev, t_rounds, drsops >>

TraverseRound ==
    /\ pc = "traverse"
    /\ t_hops > 0
    /\ TraverseRoundEnds(traverse_for(inPlace /\ t_rounds > 0, graph, t_fringe.data,
                                      arg_rel, 1, t_odrs, netlog, drsops))
    /\ UNCHANGED << graph, inPlace, op, arg_a, arg_b, arg_rel, arg_hops, storelog >>

\* traverse, line 262
TraverseReturn ==
    /\ pc = "traverse"
    /\ t_hops = 0
    /\ pc' = "done"
    /\ result' = Outcome(Done(t_odrs, netlog, drsops))
    /\ UNCHANGED << graph, inPlace, op, arg_a, arg_b, arg_rel, arg_hops, netlog,
                    storelog, drsops, t_hops, t_fringe, t_odrs, t_rounds, t_prev >>

Next ==
    \/ Intersection
    \/ Union
    \/ Difference
    \/ NeighborSearch
    \/ Paths
    \/ Annotate
    \/ MakeDrs
    \/ GeneralToFieldDrs
    \/ TraverseCall
    \/ TraverseRound
    \/ TraverseReturn

Spec == Init /\ [][Next]_vars

-----------------------------------------------------------------------------
(* Properties                                                              *)

\* what the arguments of the call normalize to
NormA == _general_to_drs(arg_a)
NormB == _general_to_drs(arg_b)

Finished(name) == pc = "done" /\ op = name

PathQueries(net) ==
    SelectSeq(net, LAMBDA c : c.fn \in {"find_path_hit", "find_path_table"})

NeighborQueries(net) == SelectSeq(net, LAMBDA c : c.fn = "neighbors_id")

\* C1: for a FIELDS-mode seed and max_hops = k, traverse returns a DRS (no
\* error) after exactly k rounds, and the accumulator's Hit set at the end
\* of a round contains the accumulator of the round before.
C1_TraverseReturnsAfterKRounds ==
    /\ (Finished("traverse") /\ NormA.ok /\ NormA.val.mode = "FIELDS")
          => (result.status = "ok" /\ t_rounds = arg_hops)
    /\ (op = "traverse" /\ pc \in {"traverse", "done"})
          => Nids(t_prev.data) \subseteq Nids(t_odrs.data)

\* C2: for a FIELDS-mode seed a and max_hops = k, the Hit set traverse
\* returns contains every Hit of a and is the set of Hits reachable from a
\* in at most k neighbor steps.
C2_TraverseReturnsReachable ==
    (Finished("traverse") /\ NormA.ok /\ NormA.val.mode = "FIELDS")
       => /\ result.status = "ok"
          /\ Nids(NormA.val.data) \subseteq Nids(result.drs.data)
          /\ Nids(result.drs.data)
                = ReachSet(graph, arg_rel, Nids(NormA.val.data), arg_hops)

\* C3: union, intersection and difference of operands that normalize to
\* different modes fail with the mode-mismatch error, return no DRS, and
\* apply no DRS set operation.
C3_ModeMismatchRejected ==
    (/\ pc = "done"
     /\ op \in {"union", "intersection", "difference"}
     /\ NormA.ok /\ NormB.ok
     /\ NormA.val.mode # NormB.val.mode)
       => /\ result.status = "error"
          /\ result.err = ModeMismatch
          /\ drsops = << >>

C3_Witness ==
    /\ Finished("difference")
    /\ NormA.ok /\ NormB.ok
    /\ NormA.val.mode = "TABLE" /\ NormB.val.mode = "FIELDS"
    /\ NormA.val.data # << >> /\ NormB.val.data # << >>
    /\ result.status = "error"

\* the query paths is expected to make for the n-th pair of a x b
ExpectedPathQuery(A, B, mode, n) ==
    IF mode = "FIELDS"
    THEN NetCall("find_path_hit",
                 << A[((n - 1) \div Len(B)) + 1].nid, B[((n - 1) % Len(B)) + 1].nid,
                    arg_rel, arg_hops >>)
    ELSE NetCall("find_path_table",
                 << A[((n - 1) \div Len(B)) + 1].nid, B[((n - 1) % Len(B)) + 1].nid,
                    arg_rel, "self", arg_hops >>)

\* the Hits the Network answers for the pair (h1, h2)
PairAnswer(mode, h1, h2) ==
    IF mode = "FIELDS"
    THEN Nids(find_path_hit(graph, h1, h2, arg_rel, arg_hops).data)
    ELSE Nids(find_path_table(graph, h1, h2, arg_rel, arg_hops).data)

\* C4: paths on same-mode operands makes exactly one path query per ordered
\* pair of a x b, in (a, b) nesting order, self-pairs included; the query is
\* find_path_hit in FIELDS mode and find_path_table (with the engine) in
\* TABLE mode; the Hit set returned is the union of the answers.
C4_PathsQueriesEveryPair ==
    (Finished("paths") /\ NormA.ok /\ NormB.ok /\ NormA.val.mode = NormB.val.mode)
       => /\ result.status = "ok"
          /\ PathQueries(netlog)
                = [n \in 1..(Len(NormA.val.data) * Len(NormB.val.data)) |->
                      ExpectedPathQuery(NormA.val.data, NormB.val.data,
                                        NormA.val.mode, n)]
          /\ Nids(result.drs.data)
                = UNION { PairAnswer(NormA.val.mode, h1, h2) :
                             h1 \in SeqToSet(NormA.val.data),
                             h2 \in SeqToSet(NormB.val.data) }

C4_Witness ==
    /\ Finished("paths")
    /\ arg_a.tag = "drs" /\ arg_b = arg_a
    /\ Len(arg_a.drs.data) = 2
    /\ arg_a.drs.mode = "FIELDS"
    /\ result.status = "ok"
    /\ Len(PathQueries(netlog)) = 4
    /\ \E n \in DOMAIN netlog : netlog[n].args[1] = netlog[n].args[2]
    /\ Cardinality(Nids(result.drs.data)) = 2

\* C5 as stated: traverse on an input that normalizes to TABLE mode fails
\* with the unsupported-mode error and makes no call to the Network at all.
C5_TraverseTableNoNetworkCall ==
    (Finished("traverse") /\ NormA.ok /\ NormA.val.mode = "TABLE")
       => /\ result.status = "error"
          /\ result.err = UnsupportedMode
          /\ netlog = << >>

\* C5, amended: traverse on an input that normalizes to TABLE mode fails
\* with the unsupported-mode error before the loop starts; it makes no
\* neighbor query, and its only Network calls are those of the input's
\* normalization (none when the input is already a DRS).
C5_TraverseTableRejected ==
    (op = "traverse" /\ NormA.ok /\ NormA.val.mode = "TABLE")
       => /\ pc = "done"
          /\ result.status = "error"
          /\ result.err = UnsupportedMode
          /\ NeighborQueries(netlog) = << >>
          /\ netlog = NormA.net
          /\ arg_a.tag = "drs" => netlog = << >>

C5_Witness ==
    /\ Finished("traverse")
    /\ arg_a.tag = "hit"
    /\ NormA.ok /\ NormA.val.mode = "TABLE"
    /\ result.err = UnsupportedMode
    /\ netlog # << >>
    /\ arg_hops > 0

\* the column Hits of every table a Hit of hits belongs to, and hits itself
ExpansionOf(hits) ==
    SeqToSet(hits)
       \cup { c \in SeqToSet(Columns) :
                 \E h \in SeqToSet(hits) : c.source_name = h.source_name }

AllNormalize(xs) == \A i \in DOMAIN xs : _general_to_drs(xs[i]).ok

AllFields(xs) == \A i \in DOMAIN xs : _general_to_drs(xs[i]).val.mode = "FIELDS"

AllHits(xs) == UNION { Nids(_general_to_drs(xs[i]).val.data) : i \in DOMAIN xs }

\* C7 as stated: make_drs propagates no error; for a list whose elements all
\* normalize it returns the union of the elements, and it returns None only
\* when the normalization of an element fails.
C7_MakeDrsNoneOnlyOnNormalizationFailure ==
    Finished("make_drs")
       => /\ result.status # "error"
          /\ arg_a.tag = "list" =>
                /\ AllNormalize(arg_a.list)
                      => (result.status = "ok"
                          /\ Nids(result.drs.data) = AllHits(arg_a.list))
                /\ result.status = "none" => ~AllNormalize(arg_a.list)

\* C7, amended: make_drs propagates no error; for a list whose elements all
\* normalize to FIELDS-mode DRSs it returns the union of the elements; it
\* returns None exactly when the normalization of an element fails or an
\* element normalizes to TABLE mode.
C7_MakeDrsNoneOnAnyFailure ==
    Finished("make_drs")
       => /\ result.status # "error"
          /\ arg_a.tag = "list" =>
                /\ (AllNormalize(arg_a.list) /\ AllFields(arg_a.list))
                      => (/\ result.status = "ok"
                          /\ result.drs.mode = "FIELDS"
                          /\ Nids(result.drs.data) = AllHits(arg_a.list))
                /\ result.status = "none"
                      <=> (~AllNormalize(arg_a.list) \/ ~AllFields(arg_a.list))
          /\ arg_a.tag # "list" =>
                (result.status = "none" <=> ~NormA.ok)

C7_Witness ==
    /\ Finished("make_drs")
    /\ arg_a.tag = "list"
    /\ Len(arg_a.list) = 2
    /\ AllNormalize(arg_a.list)
    /\ ~AllFields(arg_a.list)
    /\ result.status = "none"

\* C8: table expansion is idempotent: expanding the result of
\* _general_to_field_drs again gives a FIELDS-mode DRS with the same Hit set,
\* and the first result is already in FIELDS mode.
C8_FieldExpansionIdempotent ==
    (Finished("_general_to_field_drs") /\ result.status = "ok")
       => /\ result.drs.mode = "FIELDS"
          /\ _general_to_field_drs(inPlace, InDRS(result.drs)).ok
          /\ _general_to_field_drs(inPlace, InDRS(result.drs)).val.mode = "FIELDS"
          /\ Nids(_general_to_field_drs(inPlace, InDRS(result.drs)).val.data)
                = Nids(result.drs.data)

C8_Witness ==
    /\ Finished("_general_to_field_drs")
    /\ result.status = "ok"
    /\ NormA.val.mode = "TABLE"
    /\ Nids(NormA.val.data) # Nids(result.drs.data)
    /\ Cardinality(Nids(result.drs.data)) = 3

\* C9: annotate with a relation type and FIELDS-mode source and target
\* stores one annotation per pair of source x target (swapped when the
\* relation says the query node is the target) and returns them all; with
\* a non-FIELDS source or target it fails before any Store call.  (Stated
\* for non-empty source and target.)
C9_AnnotateStoresEveryPair ==
    (/\ Finished("annotate") /\ arg_rel # NoRelation /\ NormA.ok /\ NormB.ok
     /\ NormA.val.data # << >> /\ NormB.val.data # << >>)
       => IF NormA.val.mode = "FIELDS" /\ NormB.val.mode = "FIELDS"
          THEN /\ result.status = "ok"
               /\ Len(storelog) = Len(NormA.val.data) * Len(NormB.val.data)
               /\ Len(result.mrs) = Len(NormA.val.data) * Len(NormB.val.data)
               /\ { << c.source, c.target >> : c \in SeqToSet(storelog) }
                     = IF _mdrelation_to_str(arg_rel)[2]
                       THEN Nids(NormA.val.data) \X Nids(NormB.val.data)
                       ELSE Nids(NormB.val.data) \X Nids(NormA.val.data)
          ELSE /\ result.status = "error"
               /\ result.err = InvalidMode
               /\ storelog = << >>

\* C10: paths with no second operand (None) makes the path queries and
\* returns the Hit set of paths(a, a).
C10_PathsWithoutBSearchesWithinA ==
    (Finished("paths") /\ arg_b = InNone)
       => /\ result.status = paths(inPlace, graph, arg_a, arg_a, arg_rel, arg_hops).status
          /\ PathQueries(netlog)
                = PathQueries(paths(inPlace, graph, arg_a, arg_a, arg_rel, arg_hops).net)
          /\ result.status = "ok" =>
                Nids(result.drs.data)
                   = Nids(paths(inPlace, graph, arg_a, arg_a, arg_rel, arg_hops).drs.data)

====
